---- MODULE Spec2Model ----
(***************************************************************************)
(* Plan execution engine of DeepMiner (SimplePlanner, app/planning/simple) *)
(* and its executor selection, modelled as a state machine.                *)
(*                                                                         *)
(* Python values are rendered as follows.  A string that the code compares *)
(* character by character (agent keys, the oracle's recommendation) is a   *)
(* sequence of one-character strings; the empty sequence NoKey stands for  *)
(* both None and "" (the code tests these values only for truthiness).     *)
(* A list index is 0-based as in the code, NoIndex stands for None.        *)
(***************************************************************************)
EXTENDS Integers, Sequences, FiniteSets, TLC

VARIABLES
    agents,              \* keys of the agents dict, in iteration order
    executor_keys,       \* SimplePlanner.executor_keys
    primary_agent,       \* key of the primary agent, NoKey when there is none
    agent_state,         \* key -> AgentState of that agent
    plans,               \* planning_tool.plans: plan id -> plan data
    input_text,          \* argument of execute: a sequence of code points
    current_step_index,  \* SimplePlanner.current_step_index
    step_info,           \* step_info of the running loop iteration / call
    executor,            \* key of the executor chosen by get_executor
    recommended_agent,   \* text the oracle answers to a direct get_executor call
    asked,               \* the oracle was invoked by the latest get_executor
    last_run,            \* how the latest executor run ended
    result,              \* accumulated output of execute (list of entries)
    ret,                 \* what execute handed to its caller
    llm_call,            \* how the latest call to the oracle (llm.ask, llm.ask_tool) ended
    tool_response,       \* what the _create_initial_plan under way got from llm.ask_tool
    store_mark,          \* how the latest mark_step command of the engine ended
    plan_status,         \* the plan rendering the engine obtained last (its progress line)
    pc,                  \* position of the thread of control inside execute
    agent_class,         \* class of the executor agent whose loop is followed
    state,               \* that agent's AgentState
    current_step,        \* think/act cycles of the agent's run so far
    tool_calls,          \* the agent's tool_calls: what the latest think produced
    next_step_prompt,    \* the agent's next_step_prompt, line by line
    current_url,         \* WebAgent.current_url
    search_history,      \* WebAgent.search_history
    saved_files,         \* WebAgent.saved_files
    handled,             \* what _handle_special_tool did for each call of the latest act
    act_result,          \* how the latest act ended
    apc                  \* position of the agent's loop

\* the engine's and its collaborators' state
engine_vars == << agents, executor_keys, primary_agent, agent_state, plans, input_text,
                  current_step_index, step_info, executor, recommended_agent, asked,
                  last_run, result, ret, llm_call, tool_response, store_mark,
                  plan_status, pc >>

\* the state of one executor agent followed through its own loop
agent_vars == << agent_class, state, current_step, tool_calls, next_step_prompt,
                 current_url, search_history, saved_files, handled, act_result, apc >>

vars == << engine_vars, agent_vars >>

-----------------------------------------------------------------------------
(* Bounds of the model *)

\* longest plan an oracle call or a pre-existing store entry holds
MaxSteps == 2
\* entries of the accumulated output the model retains (later ones are dropped)
MaxOut == 4
\* longest oracle recommendation, in characters
MaxRespLen == 2

-----------------------------------------------------------------------------
(* Strings *)

NoKey == << >>
NoIndex == -1
NoText == "<none>"

Alphabet == {"A", "a", "B", "b"}

\* str.lower() on one character
LowerChar(c) ==
    CASE c = "A" -> "a"
      [] c = "B" -> "b"
      [] OTHER -> c

\* str.lower()
Lower(s) == [i \in 1..Len(s) |-> LowerChar(s[i])]

\* needle in hay (Python substring test; the empty string is in every string)
In(needle, hay) ==
    \E k \in 0..(Len(hay) - Len(needle)) :
        SubSeq(hay, k + 1, k + Len(needle)) = needle

Range(s) == {s[i] : i \in 1..Len(s)}

\* all sequences over S of length lo..hi
SeqsOf(S, lo, hi) == UNION {[1..n -> S] : n \in lo..hi}

-----------------------------------------------------------------------------
(* Step statuses (PlanStepStatus) *)

NOT_STARTED == "not_started"
IN_PROGRESS == "in_progress"
BLOCKED == "blocked"
COMPLETED == "completed"

AllStatuses == {NOT_STARTED, IN_PROGRESS, BLOCKED, COMPLETED}

\* PlanStepStatus.get_active_statuses()
ActiveStatuses == {NOT_STARTED, IN_PROGRESS, BLOCKED}

(* Agent states (AgentState) *)
IDLE == "IDLE"
RUNNING == "RUNNING"
FINISHED == "FINISHED"
ERROR == "ERROR"

-----------------------------------------------------------------------------
(* Plan store (PlanningTool): create / mark_step / get / delete *)

ActivePlanId == "plan_active"
OtherPlanId == "plan_other"

\* seq extended with v up to length n (never shortened)
PadTo(seq, n, v) ==
    IF Len(seq) >= n THEN seq
    ELSE seq \o [i \in 1..(n - Len(seq)) |-> v]

\* the plan data "create" stores
NewPlan(steps) ==
    [steps |-> steps,
     step_statuses |-> [i \in 1..Len(steps) |-> NOT_STARTED],
     step_notes |-> [i \in 1..Len(steps) |-> ""]]

\* create fails when the id already exists
CreateFails(ps, id) == id \in DOMAIN ps

Create(ps, id, steps) ==
    [x \in DOMAIN ps \cup {id} |-> IF x = id THEN NewPlan(steps) ELSE ps[x]]

\* mark_step fails on an unknown id or an index outside the step list
MarkStepFails(ps, id, index) ==
    \/ id \notin DOMAIN ps
    \/ index < 0
    \/ index >= Len(ps[id].steps)

\* mark_step grows both arrays up to the index, then writes the status
MarkStep(ps, id, index, status) ==
    LET p == ps[id]
        st == PadTo(p.step_statuses, index + 1, NOT_STARTED)
        nt == PadTo(p.step_notes, index + 1, "")
    IN  [ps EXCEPT ![id] = [p EXCEPT !.step_statuses = [st EXCEPT ![index + 1] = status],
                                     !.step_notes = nt]]

\* get and delete fail on an unknown id
GetFails(ps, id) == id \notin DOMAIN ps

Delete(ps, id) == [x \in DOMAIN ps \ {id} |-> ps[x]]

-----------------------------------------------------------------------------
(* Executor selection (SimplePlanner.get_executor) *)

\* step_info is a dict with an optional "text" and an optional "type";
\* None and the empty dict are the record with neither
StepInfo(text, type) == [text |-> text, type |-> type]

\* `not step_info`
NoStepInfo(si) == si.text = NoText /\ si.type = NoKey

\* ClosestMatch that keeps looking and returns the last key that matches
RECURSIVE ClosestMatchLast(_, _, _)
ClosestMatchLast(ag, rec, k) ==
    IF k > Len(ag) THEN NoKey
    ELSE LET later == ClosestMatchLast(ag, rec, k + 1)
         IN  IF later # NoKey THEN later
             ELSE IF In(Lower(ag[k]), Lower(rec)) \/ In(Lower(rec), Lower(ag[k]))
             THEN ag[k]
             ELSE NoKey

\* the closest-match loop: the first key, in the order of agents, that contains
\* the recommendation or is contained in it, letter case ignored
RECURSIVE ClosestMatch(_, _, _)
ClosestMatch(ag, rec, k) ==
    IF k > Len(ag) THEN NoKey
    ELSE IF In(Lower(ag[k]), Lower(rec)) \/ In(Lower(rec), Lower(ag[k])) THEN ag[k]
    ELSE ClosestMatch(ag, rec, k + 1)

\* the oracle is asked only for a step_info that has a text
AsksOracle(si) == ~NoStepInfo(si) /\ si.text # NoText

\* get_step_executor_with_llm that tries the closest match before the exact one
get_step_executor_with_llm_closest_first(ag, si, rec) ==
    IF ~AsksOracle(si) THEN NoKey
    ELSE IF ClosestMatch(ag, rec, 1) # NoKey THEN ClosestMatch(ag, rec, 1)
    ELSE IF rec \in Range(ag) THEN rec
    ELSE NoKey

\* rec is the text the oracle's free-text call returned
get_step_executor_with_llm(ag, si, rec) ==
    IF ~AsksOracle(si) THEN NoKey
    ELSE IF rec \in Range(ag) THEN rec
    ELSE ClosestMatch(ag, rec, 1)

\* DefaultExecutor that takes the first entry of executor_keys unchecked
DefaultExecutorUnchecked(ag, ek, prim, k) ==
    IF k > Len(ek) THEN prim ELSE ek[k]

\* the first entry of executor_keys that is an agent key, else the primary agent
RECURSIVE DefaultExecutor(_, _, _, _)
DefaultExecutor(ag, ek, prim, k) ==
    IF k > Len(ek) THEN prim
    ELSE IF ek[k] \in Range(ag) THEN ek[k]
    ELSE DefaultExecutor(ag, ek, prim, k + 1)

\* whether get_executor reaches the oracle call for this step_info
ReachesOracle(ag, si) ==
    /\ ~NoStepInfo(si)
    /\ ~(si.type # NoKey /\ si.type \in Range(ag))
    /\ AsksOracle(si)

\* get_executor that consults the oracle before the step's type tag
get_executor_oracle_first(ag, ek, prim, si, rec) ==
    IF NoStepInfo(si) THEN DefaultExecutor(ag, ek, prim, 1)
    ELSE LET recommended_agent_key == get_step_executor_with_llm(ag, si, rec)
         IN  IF recommended_agent_key # NoKey /\ recommended_agent_key \in Range(ag)
             THEN recommended_agent_key
             ELSE IF si.type # NoKey /\ si.type \in Range(ag) THEN si.type
             ELSE DefaultExecutor(ag, ek, prim, 1)

\* the key of the agent get_executor returns (NoKey: it returns None)
get_executor(ag, ek, prim, si, rec) ==
    IF NoStepInfo(si) THEN DefaultExecutor(ag, ek, prim, 1)
    ELSE IF si.type # NoKey /\ si.type \in Range(ag) THEN si.type
    ELSE LET recommended_agent_key == get_step_executor_with_llm(ag, si, rec)
         IN  IF recommended_agent_key # NoKey /\ recommended_agent_key \in Range(ag)
             THEN recommended_agent_key
             ELSE DefaultExecutor(ag, ek, prim, 1)

-----------------------------------------------------------------------------
(* Step selection and completion marking *)

\* the status the scan reads for step i: an index past the end of
\* step_statuses reads as NOT_STARTED
StatusAt(p, i) ==
    IF i >= Len(p.step_statuses) THEN NOT_STARTED ELSE p.step_statuses[i + 1]

\* FirstActive with a scan that resumes only steps that were never started
RECURSIVE FirstActiveNotStartedOnly(_, _)
FirstActiveNotStartedOnly(p, i) ==
    IF i >= Len(p.steps) THEN NoIndex
    ELSE IF StatusAt(p, i) = NOT_STARTED THEN i
    ELSE FirstActiveNotStartedOnly(p, i + 1)

\* FirstActive with a scan that keeps the last active step it meets
LastActive(p, i) ==
    LET active == {j \in i..(Len(p.steps) - 1) : StatusAt(p, j) \in ActiveStatuses}
    IN  IF active = {} THEN NoIndex
        ELSE CHOOSE j \in active : \A k \in active : k <= j

\* the scan of the steps in order for the first active status
RECURSIVE FirstActive(_, _)
FirstActive(p, i) ==
    IF i >= Len(p.steps) THEN NoIndex
    ELSE IF StatusAt(p, i) \in ActiveStatuses THEN i
    ELSE FirstActive(p, i + 1)

\* MarkInProgressDirect that builds the status array anew up to the step
MarkInProgressDirectRebuilt(p, i) ==
    [p EXCEPT !.step_statuses = Append([j \in 1..i |-> NOT_STARTED], IN_PROGRESS)]

\* the in-memory write of IN_PROGRESS made when the store's mark_step raised
MarkInProgressDirect(p, i) ==
    IF i < Len(p.step_statuses)
    THEN [p EXCEPT !.step_statuses[i + 1] = IN_PROGRESS]
    ELSE [p EXCEPT !.step_statuses =
              Append(PadTo(p.step_statuses, i, NOT_STARTED), IN_PROGRESS)]

\* how the engine's mark_step command ends: it raises when the command fails
\* in the store (storeRaises) or the store rejects the plan id or the index
MarkEnded(ps, id, i, storeRaises) ==
    IF storeRaises \/ MarkStepFails(ps, id, i) THEN "raised" ELSE "done"

\* get_current_step_info that leaves the step unmarked when the store raised
get_current_step_info_no_fallback(ps, id, storeRaises) ==
    IF id \notin DOMAIN ps THEN [index |-> NoIndex, plans |-> ps]
    ELSE LET i == FirstActive(ps[id], 0)
         IN  IF i = NoIndex THEN [index |-> NoIndex, plans |-> ps]
             ELSE IF storeRaises \/ MarkStepFails(ps, id, i)
             THEN [index |-> i, plans |-> ps]
             ELSE [index |-> i, plans |-> MarkStep(ps, id, i, IN_PROGRESS)]

\* _get_current_step_info: index is the step found, plans the store afterwards;
\* storeRaises tells whether the mark_step command raised
get_current_step_info(ps, id, storeRaises) ==
    IF id \notin DOMAIN ps THEN [index |-> NoIndex, plans |-> ps]
    ELSE LET i == FirstActive(ps[id], 0)
         IN  IF i = NoIndex THEN [index |-> NoIndex, plans |-> ps]
             ELSE IF storeRaises \/ MarkStepFails(ps, id, i)
             THEN [index |-> i, plans |-> [ps EXCEPT ![id] = MarkInProgressDirect(ps[id], i)]]
             ELSE [index |-> i, plans |-> MarkStep(ps, id, i, IN_PROGRESS)]

\* MarkCompletedDirect that grows the array and leaves the entry as it is
MarkCompletedDirectUnwritten(p, i) ==
    [p EXCEPT !.step_statuses = PadTo(p.step_statuses, i + 1, NOT_STARTED)]

\* the in-memory write of COMPLETED made when the store's mark_step raised
MarkCompletedDirect(p, i) ==
    [p EXCEPT !.step_statuses =
        [PadTo(p.step_statuses, i + 1, NOT_STARTED) EXCEPT ![i + 1] = COMPLETED]]

\* _mark_step_completed
mark_step_completed(ps, id, csi, storeRaises) ==
    IF csi = NoIndex THEN ps
    ELSE IF storeRaises \/ MarkStepFails(ps, id, csi)
    THEN IF id \in DOMAIN ps
         THEN [ps EXCEPT ![id] = MarkCompletedDirect(ps[id], csi)]
         ELSE ps
    ELSE MarkStep(ps, id, csi, COMPLETED)

\* _generate_plan_text_from_storage pads both arrays of the stored plan
\* up to the number of steps before it renders them
PadForRendering(p) ==
    [p EXCEPT !.step_statuses = PadTo(p.step_statuses, Len(p.steps), NOT_STARTED),
              !.step_notes = PadTo(p.step_notes, Len(p.steps), "")]

\* _get_plan_text: the store afterwards; storeRaises tells whether "get" raised
get_plan_text(ps, id, storeRaises) ==
    IF (storeRaises \/ GetFails(ps, id)) /\ id \in DOMAIN ps
    THEN [ps EXCEPT ![id] = PadForRendering(ps[id])]
    ELSE ps

\* status_counts[status]: the entries of step_statuses that are status
RECURSIVE CountStatus(_, _)
CountStatus(statuses, status) ==
    IF statuses = << >> THEN 0
    ELSE (IF Head(statuses) = status THEN 1 ELSE 0) + CountStatus(Tail(statuses), status)

\* a number of the rendering, kept exact as the quotient num / den
Ratio(num, den) == [num |-> num, den |-> den]

\* progress computed without looking at total: the division of 0 by 0 shows
\* as a quotient with den = 0
ProgressUnguarded(completed, total) == Ratio(completed * 100, total)

\* progress = (completed / total) * 100 if total > 0 else 0
Progress(completed, total) ==
    IF total > 0 THEN Ratio(completed * 100, total) ELSE Ratio(0, 1)

\* the progress line of a plan rendering
Rendering(completed, total) ==
    [completed |-> completed, total |-> total, progress |-> Progress(completed, total)]

\* no plan was rendered: the text is an error message
NoRendering == [completed |-> 0, total |-> 0, progress |-> Ratio(0, 1)]

\* _generate_plan_text_from_storage: the progress line of the active plan,
\* counted over step_statuses once it is padded to the number of steps
generate_plan_text_from_storage(ps, id) ==
    IF id \notin DOMAIN ps THEN NoRendering
    ELSE Rendering(CountStatus(PadForRendering(ps[id]).step_statuses, COMPLETED),
                   Len(ps[id].steps))

\* the rendering the store's "get" command answers
StoreRendering(p) == Rendering(CountStatus(p.step_statuses, COMPLETED), Len(p.steps))

\* _get_plan_text: the text it returns; storeRaises tells whether "get" raised
plan_text(ps, id, storeRaises) ==
    IF storeRaises \/ GetFails(ps, id) THEN generate_plan_text_from_storage(ps, id)
    ELSE StoreRendering(ps[id])

-----------------------------------------------------------------------------
(* Plan acquisition (SimplePlanner._create_initial_plan) *)

\* longest list of tool calls the oracle's tool-selecting answer holds
MaxToolCalls == 2

CJKThreshold == 12288
CyrillicFirst == 1024
CyrillicLast == 1279

has_cjk_chars(text) == \E i \in 1..Len(text) : text[i] > CJKThreshold

has_cyrillic_chars(text) ==
    \E i \in 1..Len(text) : CyrillicFirst <= text[i] /\ text[i] <= CyrillicLast

LatinSteps == << "Analyze request", "Execute task", "Verify results" >>
CyrillicSteps == << "ru: Analyze request", "ru: Execute task", "ru: Verify results" >>
CJKSteps == << "zh: Analyze request", "zh: Execute task", "zh: Verify results" >>

\* default_steps that looks for Cyrillic letters before CJK characters
default_steps_cyrillic_first(request) ==
    IF has_cyrillic_chars(request) THEN CyrillicSteps
    ELSE IF has_cjk_chars(request) THEN CJKSteps
    ELSE LatinSteps

\* the steps of the default plan, phrased after the characters of the request
default_steps(request) ==
    IF has_cjk_chars(request) THEN CJKSteps
    ELSE IF has_cyrillic_chars(request) THEN CyrillicSteps
    ELSE LatinSteps

\* the text of the i-th step (0-based) of a plan that is not a default plan
StepText(i) ==
    CASE i = 0 -> "step 0"
      [] i = 1 -> "step 1"
      [] i = 2 -> "step 2"
      [] OTHER -> "step n"

StepsOfLen(n) == [i \in 1..n |-> StepText(i - 1)]

\* one tool call of the oracle's answer: its function name, whether its
\* argument string parses as JSON, and the parsed command
ToolCall(name, parses, command, plan_id, steps) ==
    [name |-> name, parses |-> parses, command |-> command,
     plan_id |-> plan_id, steps |-> steps]

ToolCalls ==
    {ToolCall("other", TRUE, "none", OtherPlanId, << >>),
     ToolCall("planning", FALSE, "none", OtherPlanId, << >>)}
    \cup {ToolCall("planning", TRUE, "create", id, StepsOfLen(n)) :
              id \in {ActivePlanId, OtherPlanId}, n \in 0..MaxSteps}
    \cup {ToolCall("planning", TRUE, c, id, << >>) :
              c \in {"get", "delete"}, id \in {ActivePlanId, OtherPlanId}}

\* planning_tool.execute(**args) with plan_id already forced to id
PlanningExecute(ps, id, call) ==
    CASE call.command = "create" ->
            IF CreateFails(ps, id) THEN [raised |-> TRUE, plans |-> ps]
            ELSE [raised |-> FALSE, plans |-> Create(ps, id, call.steps)]
      [] call.command = "delete" ->
            IF GetFails(ps, id) THEN [raised |-> TRUE, plans |-> ps]
            ELSE [raised |-> FALSE, plans |-> Delete(ps, id)]
      [] OTHER ->
            IF GetFails(ps, id) THEN [raised |-> TRUE, plans |-> ps]
            ELSE [raised |-> FALSE, plans |-> ps]

\* the default plan created when no planning call was executed
CreateDefaultPlan(ps, id, request) ==
    IF CreateFails(ps, id) THEN [raised |-> TRUE, plans |-> ps]
    ELSE [raised |-> FALSE, plans |-> Create(ps, id, default_steps(request))]

\* ProcessToolCalls that executes the planning call under the plan_id the
\* oracle wrote in its arguments
RECURSIVE ProcessToolCallsOracleId(_, _, _, _, _)
ProcessToolCallsOracleId(ps, id, request, calls, k) ==
    IF k > Len(calls) THEN CreateDefaultPlan(ps, id, request)
    ELSE IF calls[k].name = "planning" /\ calls[k].parses
    THEN PlanningExecute(ps, calls[k].plan_id, calls[k])
    ELSE ProcessToolCallsOracleId(ps, id, request, calls, k + 1)

\* the loop over response.tool_calls: the first planning call whose arguments
\* parse is executed under the active plan id and ends the function
RECURSIVE ProcessToolCalls(_, _, _, _, _)
ProcessToolCalls(ps, id, request, calls, k) ==
    IF k > Len(calls) THEN CreateDefaultPlan(ps, id, request)
    ELSE IF calls[k].name = "planning" /\ calls[k].parses
    THEN PlanningExecute(ps, id, calls[k])
    ELSE ProcessToolCalls(ps, id, request, calls, k + 1)

\* the position in calls of the planning call the loop executes, 0 when the
\* loop ends without executing one
RECURSIVE FirstPlanningCall(_, _)
FirstPlanningCall(calls, k) ==
    IF k > Len(calls) THEN 0
    ELSE IF calls[k].name = "planning" /\ calls[k].parses THEN k
    ELSE FirstPlanningCall(calls, k + 1)

\* no answer of llm.ask_tool: it was not called, or it raised
NoResponse == [how |-> "none", command |-> "none", plan_id |-> "none"]

\* what _create_initial_plan made of response.tool_calls: the planning call it
\* executed (with the command and the plan_id the oracle wrote), or why it
\* executed none
ToolResponse(calls) ==
    LET k == FirstPlanningCall(calls, 1)
    IN  IF k # 0
        THEN [how |-> "planning call", command |-> calls[k].command,
              plan_id |-> calls[k].plan_id]
        ELSE IF calls = << >>
        THEN [how |-> "no tool call", command |-> "none", plan_id |-> "none"]
        ELSE IF \E j \in 1..Len(calls) : calls[j].name = "planning"
        THEN [how |-> "unparsed planning call", command |-> "none", plan_id |-> "none"]
        ELSE [how |-> "no planning call", command |-> "none", plan_id |-> "none"]

\* _create_initial_plan: askRaises tells whether llm.ask_tool raised
create_initial_plan(ps, id, request, askRaises, calls) ==
    IF askRaises THEN [raised |-> TRUE, plans |-> ps]
    ELSE ProcessToolCalls(ps, id, request, calls, 1)

-----------------------------------------------------------------------------
(* Executor agents (app/agent): tool registries, special tools, think, act *)

\* think/act cycles a run may take (max_steps of the agent classes)
MaxCycles == 3
\* entries search_history and saved_files may reach in the model
MaxLog == 2

AgentClasses == {"WebAgent", "SWEAgent", "DataMiner"}

\* available_tools of each class, by tool name
available_tools(cls) ==
    CASE cls = "WebAgent" -> {"browser_use", "web_search", "file_saver", "terminate"}
      [] cls = "SWEAgent" -> {"bash", "str_replace_editor", "terminate"}
      [] cls = "DataMiner" ->
            {"python_execute", "create_chat_completion", "file_saver", "terminate"}

\* special_tool_names of ToolCallAgent, which DataMiner does not override
DefaultSpecialToolNames == {"terminate"}

\* special_tool_names of each class
special_tool_names(cls) ==
    CASE cls = "WebAgent" -> {"browser_use", "terminate"}
      [] cls = "SWEAgent" -> {"terminate"}
      [] cls = "DataMiner" -> DefaultSpecialToolNames

\* the arguments string of a tool call: its form ("empty": the empty string;
\* "invalid": not JSON; "non-object": JSON that is no object; "object") and,
\* for an object, the fields WebAgent.act reads ("" : absent or empty)
Args(form, action, url, query, file_path) ==
    [form |-> form, action |-> action, url |-> url, query |-> query,
     file_path |-> file_path]

NoArgs == Args("object", "", "", "", "")

Malformed(form) == Args(form, "", "", "", "")

AgentCall(name, args) == [name |-> name, args |-> args]

\* the tool calls the oracle can issue to an agent of class cls
AgentCalls(cls) ==
    {AgentCall(n, NoArgs) :
        n \in available_tools(cls) \ {"browser_use", "web_search", "file_saver"}}
    \cup IF cls # "WebAgent" THEN {AgentCall("file_saver", NoArgs)}
         ELSE {AgentCall("browser_use", Malformed("invalid")),
               AgentCall("web_search", Malformed("empty")),
               AgentCall("file_saver", Malformed("non-object")),
               AgentCall("browser_use", Args("object", "navigate", "u1", "", "")),
               AgentCall("browser_use", Args("object", "navigate", "u2", "", "")),
               AgentCall("browser_use", Args("object", "navigate", "", "", "")),
               AgentCall("browser_use", Args("object", "click", "u1", "", "")),
               AgentCall("web_search", Args("object", "", "", "q1", "")),
               AgentCall("web_search", Args("object", "", "", "q2", "")),
               AgentCall("file_saver", Args("object", "", "", "", "f1"))}

\* what one think can produce: no call, one call, or two calls
Batches(cls) ==
    {<< >>} \cup {<< c >> : c \in AgentCalls(cls)}
    \cup {<< c, d >> : c, d \in AgentCalls(cls)}

\* the outcome of one _handle_special_tool
Handled(name, how, cleanup, st) ==
    [name |-> name, how |-> how, cleanup |-> cleanup, state |-> st]

\* _handle_special_tool of class cls for a call of tool name, the agent being
\* in state st: a name that is not special is ignored; WebAgent cleans up its
\* browser tool when it has one; DataMiner calls cleanup on whatever get_tool
\* gives for the browser tool's name; both then hand over to ToolCallAgent's
\* handler, which finishes the agent, as it does for SWEAgent right away.
\* cleanupRaises: the browser tool's cleanup raises
handle_special_tool(cls, st, name, cleanupRaises) ==
    IF name \notin special_tool_names(cls)
    THEN Handled(name, "ignored", FALSE, st)
    ELSE IF cls = "SWEAgent"
    THEN Handled(name, "finished", FALSE, FINISHED)
    ELSE IF "browser_use" \in available_tools(cls)
    THEN IF cleanupRaises
         THEN Handled(name, "raised", TRUE, st)
         ELSE Handled(name, "finished", TRUE, FINISHED)
    ELSE IF cls = "WebAgent"
    THEN Handled(name, "finished", FALSE, FINISHED)
    ELSE Handled(name, "raised", FALSE, st)

\* what the collaborators of one act do.  reached: the execution of a tool
\* gets as far as _handle_special_tool (otherwise it failed before, and the
\* failure became the call's result); cleanupRaises: the browser tool's
\* cleanup raises; escapes: an exception of the handler aborts the run
\* (otherwise it becomes the call's result); state: what an aborted run
\* leaves the agent in
Environments ==
    {[reached |-> FALSE, cleanupRaises |-> FALSE, escapes |-> FALSE, state |-> FINISHED]}
    \cup {[reached |-> TRUE, cleanupRaises |-> c, escapes |-> FALSE, state |-> FINISHED] :
             c \in BOOLEAN}
    \cup {[reached |-> TRUE, cleanupRaises |-> c, escapes |-> TRUE, state |-> st] :
             c \in BOOLEAN, st \in {FINISHED, ERROR}}

\* ToolCallAgent.act: the calls are executed in order and each one that gets
\* there is handed to _handle_special_tool
RECURSIVE execute_tool_calls(_, _, _, _)
execute_tool_calls(cls, acc, calls, env) ==
    IF calls = << >> \/ acc.raised THEN acc
    ELSE LET c == Head(calls)
             h == IF env.reached
                  THEN handle_special_tool(cls, acc.state, c.name, env.cleanupRaises)
                  ELSE Handled(c.name, "not reached", FALSE, acc.state)
         IN  execute_tool_calls(cls,
                                [state |-> h.state,
                                 raised |-> h.how = "raised" /\ env.escapes,
                                 handled |-> Append(acc.handled, h)],
                                Tail(calls), env)

NoUrl == "none"

\* the side state WebAgent keeps
Side(url, searches, files) ==
    [current_url |-> url, search_history |-> searches, saved_files |-> files]

Raised == "<raised>"

\* json.loads(args) followed by .get(field): the value read, Raised when
\* json.loads raises (no JSON) or the value has no get (no object)
LoadsGet(a, field) ==
    IF a.form \in {"empty", "invalid"} THEN Raised
    ELSE IF a.form = "non-object" THEN Raised
    ELSE a[field]

\* the side state after one step of the tracking, and whether it raised
Tracked(side, raised) == [side |-> side, raised |-> raised]

\* the statements inside the try of the branch of tool call c
TryTrack(side, c) ==
    IF c.name = "browser_use"
    THEN IF Raised \in {LoadsGet(c.args, "action"), LoadsGet(c.args, "url")}
         THEN Tracked(side, TRUE)
         ELSE IF LoadsGet(c.args, "action") = "navigate" /\ LoadsGet(c.args, "url") # ""
         THEN Tracked([side EXCEPT !.current_url = c.args.url], FALSE)
         ELSE Tracked(side, FALSE)
    ELSE IF c.name = "web_search"
    THEN IF LoadsGet(c.args, "query") = Raised THEN Tracked(side, TRUE)
         ELSE IF LoadsGet(c.args, "query") # ""
         THEN Tracked([side EXCEPT !.search_history = Append(@, c.args.query)], FALSE)
         ELSE Tracked(side, FALSE)
    ELSE IF LoadsGet(c.args, "file_path") = Raised THEN Tracked(side, TRUE)
         ELSE IF LoadsGet(c.args, "file_path") # ""
         THEN Tracked([side EXCEPT !.saved_files = Append(@, c.args.file_path)], FALSE)
         ELSE Tracked(side, FALSE)

\* TrackCall without the except clauses: what the try raises leaves the loop
TrackCallUnguarded(side, c) ==
    IF c.name \in {"browser_use", "web_search", "file_saver"} /\ c.args.form # "empty"
    THEN TryTrack(side, c)
    ELSE Tracked(side, FALSE)

\* the body of WebAgent.act's loop for one tool call: a tracked tool with
\* arguments enters its try, and whatever that raises is passed over
TrackCall(side, c) ==
    IF c.name \in {"browser_use", "web_search", "file_saver"} /\ c.args.form # "empty"
    THEN IF TryTrack(side, c).raised THEN Tracked(side, FALSE) ELSE TryTrack(side, c)
    ELSE Tracked(side, FALSE)

\* WebAgent.act after super().act(): the tool calls are inspected in order
RECURSIVE Track(_, _)
Track(t, calls) ==
    IF calls = << >> \/ t.raised THEN t
    ELSE Track(TrackCall(t.side, Head(calls)), Tail(calls))

\* NEXT_STEP_PROMPT of app/prompt/web, line by line
NEXT_STEP_PROMPT ==
    << "Based on the current state and previous actions, determine the next step",
       "If you've gathered all the necessary information, summarize your findings" >>

\* NEXT_STEP_PROMPT of app/prompt/dataminer, by its first line
DATAMINER_NEXT_STEP_PROMPT ==
    << "Execute data-centric operations using your specialized Python-based tools" >>

\* NEXT_STEP_TEMPLATE of app/prompt/swe, which is not under src/: the line
\* that str.format fills in
NEXT_STEP_TEMPLATE == << "(Current dir: {current_dir})" >>

CurrentUrlLine(url) == IF url = "u1" THEN "Current URL: u1" ELSE "Current URL: u2"

\* the next_step_prompt WebAgent.think stores before it asks the oracle
web_think(prompt, url) ==
    IF url # NoUrl THEN << CurrentUrlLine(url) >> \o prompt ELSE prompt

\* the next_step_prompt SWEAgent.think stores: str.format fills current_dir in
swe_think(prompt) ==
    [i \in DOMAIN prompt |->
        IF prompt[i] = "(Current dir: {current_dir})"
        THEN "(Current dir: workspace_root)" ELSE prompt[i]]

\* think of class cls as far as next_step_prompt goes
think(cls, prompt, url) ==
    CASE cls = "WebAgent" -> web_think(prompt, url)
      [] cls = "SWEAgent" -> swe_think(prompt)
      [] cls = "DataMiner" -> prompt

\* the agent is not followed through its loop
AgentAbsent ==
    /\ agent_class = "none"
    /\ state = IDLE
    /\ current_step = 0
    /\ tool_calls = << >>
    /\ next_step_prompt = << >>
    /\ current_url = NoUrl
    /\ search_history = << >>
    /\ saved_files = << >>
    /\ handled = << >>
    /\ act_result = "none"
    /\ apc = "absent"

\* run is called on the agent, which is IDLE
AgentRun ==
    /\ apc = "constructed"
    /\ state = IDLE
    /\ state' = RUNNING
    /\ current_step' = 0
    /\ apc' = "think"
    /\ UNCHANGED << engine_vars, agent_class, tool_calls, next_step_prompt, current_url,
                    search_history, saved_files, handled, act_result >>

\* think: the next-step instructions are stored, then ToolCallAgent.think
\* asks the oracle, which raises (the run is aborted) or answers a batch of
\* tool calls; with no tool call the loop ends
Think ==
    /\ apc = "think"
    /\ next_step_prompt' = think(agent_class, next_step_prompt, current_url)
    /\ \/ \E st \in {FINISHED, ERROR} :
             /\ state' = st
             /\ apc' = "ended"
             /\ UNCHANGED tool_calls
       \/ \E batch \in Batches(agent_class) :
             /\ tool_calls' = batch
             /\ state' = IF batch = << >> THEN IDLE ELSE state
             /\ apc' = IF batch = << >> THEN "ended" ELSE "act"
    /\ handled' = << >>
    /\ act_result' = "none"
    /\ UNCHANGED << engine_vars, agent_class, current_step, current_url, search_history,
                    saved_files >>

\* act: ToolCallAgent.act executes the calls, then WebAgent tracks its side
\* state; an exception leaving act aborts the run; the loop ends when a
\* special tool finished the agent or the step budget is used up
Act ==
    /\ apc = "act"
    /\ \E env \in Environments :
          LET r == execute_tool_calls(agent_class,
                                      [state |-> state, raised |-> FALSE, handled |-> << >>],
                                      tool_calls, env)
              before == Tracked(Side(current_url, search_history, saved_files), FALSE)
              t == IF agent_class = "WebAgent" THEN Track(before, tool_calls) ELSE before
              side == t.side
          IN  /\ Len(side.search_history) <= MaxLog
              /\ Len(side.saved_files) <= MaxLog
              /\ handled' = r.handled
              /\ IF r.raised
                 THEN /\ act_result' = "aborted"
                      /\ state' = env.state
                      /\ apc' = "ended"
                      /\ UNCHANGED << current_step, current_url, search_history, saved_files >>
                 ELSE IF t.raised
                 THEN /\ act_result' = "raised"
                      /\ state' = env.state
                      /\ apc' = "ended"
                      /\ current_url' = side.current_url
                      /\ search_history' = side.search_history
                      /\ saved_files' = side.saved_files
                      /\ UNCHANGED current_step
                 ELSE /\ act_result' = "returned"
                      /\ current_url' = side.current_url
                      /\ search_history' = side.search_history
                      /\ saved_files' = side.saved_files
                      /\ current_step' = current_step + 1
                      /\ state' = IF r.state = FINISHED THEN FINISHED
                                  ELSE IF current_step + 1 >= MaxCycles THEN IDLE
                                  ELSE r.state
                      /\ apc' = IF r.state = FINISHED \/ current_step + 1 >= MaxCycles
                                THEN "ended" ELSE "think"
    /\ UNCHANGED << engine_vars, agent_class, tool_calls, next_step_prompt >>

\* an agent of one of the three classes, as constructed by main
AgentInit ==
    /\ agent_class \in AgentClasses
    /\ state = IDLE
    /\ current_step = 0
    /\ tool_calls = << >>
    /\ next_step_prompt = CASE agent_class = "WebAgent" -> NEXT_STEP_PROMPT
                             [] agent_class = "SWEAgent" -> NEXT_STEP_TEMPLATE
                             [] agent_class = "DataMiner" -> DATAMINER_NEXT_STEP_PROMPT
    /\ current_url = NoUrl
    /\ search_history = << >>
    /\ saved_files = << >>
    /\ handled = << >>
    /\ act_result = "none"
    /\ apc = "constructed"
    /\ agents = << >>
    /\ executor_keys = << >>
    /\ primary_agent = NoKey
    /\ agent_state = << >>
    /\ plans = << >>
    /\ input_text = << >>
    /\ current_step_index = NoIndex
    /\ step_info = StepInfo(NoText, NoKey)
    /\ executor = NoKey
    /\ recommended_agent = NoKey
    /\ asked = FALSE
    /\ last_run = "none"
    /\ result = << >>
    /\ ret = "none"
    /\ llm_call = "none"
    /\ tool_response = NoResponse
    /\ store_mark = "none"
    /\ plan_status = NoRendering
    /\ pc = "agent"

AgentNext == AgentRun \/ Think \/ Act

AgentSpec == AgentInit /\ [][AgentNext]_vars

-----------------------------------------------------------------------------
(* Agent loop (BaseAgent.run of the executor), seen from the engine *)

\* how a run can end, by the state it is invoked in: cause, whether it raises,
\* and the state it leaves the agent in
RunOutcomes(st) ==
    IF st = IDLE
    THEN {[cause |-> "terminate", raises |-> FALSE, state |-> FINISHED],
          [cause |-> "special_tool", raises |-> FALSE, state |-> FINISHED],
          [cause |-> "budget", raises |-> FALSE, state |-> IDLE],
          [cause |-> "no_action", raises |-> FALSE, state |-> IDLE],
          [cause |-> "aborted", raises |-> TRUE, state |-> FINISHED],
          [cause |-> "aborted", raises |-> TRUE, state |-> ERROR]}
    ELSE {[cause |-> "not_idle", raises |-> TRUE, state |-> st]}

-----------------------------------------------------------------------------
(* SimplePlanner.execute *)

\* an entry of the accumulated output
Out(kind, step) == [kind |-> kind, step |-> step]

\* result += text, within the entries the model retains
AppendOut(res, e) == IF Len(res) < MaxOut THEN Append(res, e) ELSE res

\* execute_except that lets the exception through to the caller
execute_except_reraises(e) == "raised"

\* the outermost handler of execute: what it hands to the caller for exception e
execute_except(e) == "Execution failed"

\* an exception e reaches the outermost handler of execute
Raise(e) ==
    /\ ret' = execute_except(e)
    /\ pc' = "done"

\* the agent keys an oracle recommendation is drawn from
Recommendations == SeqsOf(Alphabet, 0, MaxRespLen)

\* execute entered without a primary agent
StartNoPrimary ==
    /\ pc = "start"
    /\ primary_agent = NoKey
    /\ Raise("No primary agent available")
    /\ UNCHANGED << agent_vars, plan_status, recommended_agent, agents, executor_keys, primary_agent, agent_state, plans,
                    input_text, current_step_index, step_info, executor, asked,
                    last_run, result, llm_call, tool_response, store_mark >>

\* execute entered with an input text: _create_initial_plan acquires the plan
StartCreatePlan ==
    /\ pc = "start"
    /\ primary_agent # NoKey
    /\ input_text # << >>
    /\ \E askRaises \in BOOLEAN, calls \in SeqsOf(ToolCalls, 0, MaxToolCalls) :
          LET r == create_initial_plan(plans, ActivePlanId, input_text, askRaises, calls)
          IN  /\ plans' = r.plans
              /\ llm_call' = IF askRaises THEN "raised" ELSE "answered"
              /\ tool_response' = IF askRaises THEN NoResponse ELSE ToolResponse(calls)
              /\ IF r.raised THEN Raise("plan creation")
                 ELSE ret' = ret /\ pc' = "verify_plan"
    /\ UNCHANGED << agent_vars, plan_status, recommended_agent, agents, executor_keys, primary_agent, agent_state,
                    input_text, current_step_index, step_info, executor, asked,
                    last_run, result, store_mark >>

\* VerifyPlan that enters the loop without looking for the plan in the store
VerifyPlanUnchecked ==
    /\ pc = "verify_plan"
    /\ ret' = ret
    /\ pc' = "select"
    /\ tool_response' = NoResponse
    /\ UNCHANGED << agent_vars, plan_status, recommended_agent, agents, executor_keys, primary_agent, agent_state,
                    plans, input_text, current_step_index, step_info, executor, asked,
                    last_run, result, llm_call, store_mark >>

\* _create_initial_plan returned (its response is gone with it): execute
\* verifies that the store holds the active plan
VerifyPlan ==
    /\ pc = "verify_plan"
    /\ IF ActivePlanId \notin DOMAIN plans
       THEN ret' = "Failed to create plan" /\ pc' = "done"
       ELSE ret' = ret /\ pc' = "select"
    /\ tool_response' = NoResponse
    /\ UNCHANGED << agent_vars, plan_status, recommended_agent, agents, executor_keys, primary_agent, agent_state,
                    plans, input_text, current_step_index, step_info, executor, asked,
                    last_run, result, llm_call, store_mark >>

\* execute entered with an empty input text: no plan is created
StartNoInput ==
    /\ pc = "start"
    /\ primary_agent # NoKey
    /\ input_text = << >>
    /\ pc' = "select"
    /\ UNCHANGED << agent_vars, plan_status, recommended_agent, agents, executor_keys, primary_agent, agent_state, plans,
                    input_text, current_step_index, step_info, executor, asked,
                    last_run, result, ret, llm_call, tool_response, store_mark >>

\* head of the loop: the current step is selected and marked in progress
SelectStep ==
    /\ pc = "select"
    /\ \E storeRaises \in BOOLEAN :
          LET r == get_current_step_info(plans, ActivePlanId, storeRaises)
          IN  /\ current_step_index' = r.index
              /\ plans' = r.plans
              /\ IF r.index = NoIndex
                 THEN /\ step_info' = StepInfo(NoText, NoKey)
                      /\ store_mark' = store_mark
                      /\ pc' = "finalize"
                 ELSE /\ step_info' = StepInfo(plans[ActivePlanId].steps[r.index + 1], NoKey)
                      /\ store_mark' = MarkEnded(plans, ActivePlanId, r.index, storeRaises)
                      /\ pc' = "get_executor"
    /\ UNCHANGED << agent_vars, plan_status, recommended_agent, agents, executor_keys, primary_agent, agent_state,
                    input_text, executor, asked, last_run, result, ret,
                    llm_call, tool_response >>

\* the executor of the step is chosen; the oracle answers rec when it is asked
ChooseExecutor ==
    /\ pc = "get_executor"
    /\ \E rec \in Recommendations :
          executor' = get_executor(agents, executor_keys, primary_agent, step_info, rec)
    /\ asked' = ReachesOracle(agents, step_info)
    /\ llm_call' = IF ReachesOracle(agents, step_info) THEN "answered" ELSE llm_call
    /\ pc' = "execute_step"
    /\ UNCHANGED << agent_vars, plan_status, recommended_agent, agents, executor_keys, primary_agent, agent_state, plans,
                    input_text, current_step_index, step_info, last_run, result, ret,
                    tool_response, store_mark >>

\* the oracle's free-text call raises inside get_executor
ChooseExecutorOracleRaises ==
    /\ pc = "get_executor"
    /\ ReachesOracle(agents, step_info)
    /\ asked' = TRUE
    /\ llm_call' = "raised"
    /\ Raise("llm.ask")
    /\ UNCHANGED << agent_vars, plan_status, recommended_agent, agents, executor_keys, primary_agent, agent_state, plans,
                    input_text, current_step_index, step_info, executor,
                    last_run, result, tool_response, store_mark >>

\* _execute_step for a run that ended as outcome o: the store afterwards, the
\* text handed back, and how its mark_step command ended ("none": none issued)
execute_step(ps, id, csi, o, getRaises, markRaises) ==
    LET shown == get_plan_text(ps, id, getRaises)
    IN  IF o.raises
        THEN [plans |-> shown, out |-> Out("step_error", csi), mark |-> "none"]
        ELSE [plans |-> mark_step_completed(shown, id, csi, markRaises),
              out |-> Out("step_result", csi),
              mark |-> IF csi = NoIndex THEN "none"
                       ELSE MarkEnded(shown, id, csi, markRaises)]

\* the chosen executor runs the step and the step's text joins the output
ExecuteStep ==
    /\ pc = "execute_step"
    /\ \E o \in RunOutcomes(agent_state[executor]), getRaises, markRaises \in BOOLEAN :
          LET r == execute_step(plans, ActivePlanId, current_step_index, o,
                                getRaises, markRaises)
          IN  /\ plans' = r.plans
              /\ result' = AppendOut(result, r.out)
              /\ agent_state' = [agent_state EXCEPT ![executor] = o.state]
              /\ last_run' = o.cause
              /\ store_mark' = IF r.mark = "none" THEN store_mark ELSE r.mark
              /\ plan_status' = plan_text(plans, ActivePlanId, getRaises)
    /\ pc' = "check"
    /\ UNCHANGED << agent_vars, recommended_agent, agents, executor_keys, primary_agent, input_text,
                    current_step_index, step_info, executor, asked, ret,
                    llm_call, tool_response >>

\* terminates_after_step that never ends the loop
terminates_after_step_never(st) == FALSE

\* whether the loop ends after a step: the executor's state is FINISHED
terminates_after_step(st) == st = FINISHED

\* end of a loop iteration
CheckTerminate ==
    /\ pc = "check"
    /\ IF terminates_after_step(agent_state[executor])
       THEN ret' = "result" /\ pc' = "done"
       ELSE ret' = ret /\ pc' = "select"
    /\ UNCHANGED << agent_vars, plan_status, recommended_agent, agents, executor_keys, primary_agent, agent_state, plans,
                    input_text, current_step_index, step_info, executor, asked,
                    last_run, result, llm_call, tool_response, store_mark >>

\* finalize_plan that gives up as soon as the oracle's summary call raised
finalize_plan_no_agent_fallback(askRaises, o) ==
    IF ~askRaises THEN Out("Plan completed: oracle summary", NoIndex)
    ELSE Out("Plan completed. Error generating summary.", NoIndex)

\* _finalize_plan after the oracle's summary call ended (askRaises) and, when it
\* raised, the primary agent's run ended as outcome o
finalize_plan(askRaises, o) ==
    IF ~askRaises THEN Out("Plan completed: oracle summary", NoIndex)
    ELSE IF ~o.raises THEN Out("Plan completed: agent summary", NoIndex)
    ELSE Out("Plan completed. Error generating summary.", NoIndex)

\* no active step is left: the summary ends the run
Finalize ==
    /\ pc = "finalize"
    /\ \E getRaises, askRaises \in BOOLEAN, o \in RunOutcomes(agent_state[primary_agent]) :
          /\ plans' = get_plan_text(plans, ActivePlanId, getRaises)
          /\ plan_status' = plan_text(plans, ActivePlanId, getRaises)
          /\ result' = AppendOut(result, finalize_plan(askRaises, o))
          /\ llm_call' = IF askRaises THEN "raised" ELSE "answered"
          /\ IF askRaises
             THEN /\ agent_state' = [agent_state EXCEPT ![primary_agent] = o.state]
                  /\ last_run' = o.cause
             ELSE UNCHANGED << agent_state, last_run >>
    /\ ret' = "result"
    /\ pc' = "done"
    /\ UNCHANGED << agent_vars, recommended_agent, agents, executor_keys, primary_agent, input_text,
                    current_step_index, step_info, executor, asked,
                    tool_response, store_mark >>

-----------------------------------------------------------------------------
(* The run of execute: initial states and next-state relation *)

KeyA == << "A" >>
KeyB == << "B" >>
KeyAb == << "A", "b" >>
KeyaB == << "a", "B" >>

\* a planner as constructed: agents, executor_keys (all agent keys when none
\* were given) and the primary agent
Planner(ag, ek, prim) == [agents |-> ag, executor_keys |-> ek, primary |-> prim]

EnginePlanners ==
    {Planner(<< KeyA, KeyB >>, << KeyA, KeyB >>, KeyA),
     Planner(<< KeyAb, KeyA >>, << KeyB, KeyA >>, KeyAb),
     Planner(<< >>, << >>, NoKey)}

\* the task strings given to execute, as code points: "", "hi", a Cyrillic
\* letter, a CJK ideograph, U+3000 alone, Cyrillic and CJK together
InputTexts ==
    {<< >>, << 104, 105 >>, << 1046 >>, << 20013 >>, << 12288 >>, << 1046, 20013 >>}

\* plan data found in the store under the active id before execute runs: the
\* status and note arrays may be shorter than the step list
StoredPlans ==
    {[steps |-> StepsOfLen(n), step_statuses |-> st, step_notes |-> [i \in 1..m |-> ""]] :
        n \in 0..MaxSteps, st \in SeqsOf(AllStatuses, 0, MaxSteps), m \in 0..MaxSteps}

\* the store and the task string execute starts from: an empty store with any
\* task string; a stored plan run with no task string; a freshly created stored
\* plan with the task string "hi"
InitialRuns ==
    {[plans |-> << >>, input_text |-> t] : t \in InputTexts}
    \cup {[plans |-> (ActivePlanId :> p), input_text |-> << >>] :
             p \in {q \in StoredPlans : /\ Len(q.step_statuses) <= Len(q.steps)
                                        /\ Len(q.step_notes) <= Len(q.steps)}}
    \cup {[plans |-> (ActivePlanId :> NewPlan(StepsOfLen(n))), input_text |-> << 104, 105 >>] :
             n \in 0..MaxSteps}

Init ==
    /\ \E c \in EnginePlanners :
          /\ agents = c.agents
          /\ executor_keys = c.executor_keys
          /\ primary_agent = c.primary
          /\ agent_state = [k \in Range(c.agents) |-> IDLE]
    /\ \E r \in InitialRuns :
          /\ plans = r.plans
          /\ input_text = r.input_text
    /\ current_step_index = NoIndex
    /\ step_info = StepInfo(NoText, NoKey)
    /\ executor = NoKey
    /\ recommended_agent = NoKey
    /\ asked = FALSE
    /\ last_run = "none"
    /\ result = << >>
    /\ ret = "none"
    /\ llm_call = "none"
    /\ tool_response = NoResponse
    /\ store_mark = "none"
    /\ plan_status = NoRendering
    /\ pc = "start"
    /\ AgentAbsent

Next ==
    \/ StartNoPrimary
    \/ StartCreatePlan
    \/ VerifyPlan
    \/ StartNoInput
    \/ SelectStep
    \/ ChooseExecutor
    \/ ChooseExecutorOracleRaises
    \/ ExecuteStep
    \/ CheckTerminate
    \/ Finalize

Spec == Init /\ [][Next]_vars

\* the thread of control of execute keeps running until execute returns
FairSpec == Spec /\ WF_vars(Next)

-----------------------------------------------------------------------------
(* The run under the caller's wall-clock timeout (main.run) *)

\* execute is suspended on a call to the oracle or on an agent's run
Suspended ==
    \/ pc = "start" /\ primary_agent # NoKey /\ input_text # << >>
    \/ pc = "get_executor" /\ ReachesOracle(agents, step_info)
    \/ pc \in {"execute_step", "finalize"}

\* the state a run that is cancelled under way can leave its agent in
CancelledRunStates(st) == IF st = IDLE THEN {IDLE, RUNNING, FINISHED, ERROR} ELSE {st}

\* the timeout expires: execute is cancelled where it is suspended and
\* abandoned; nothing is rolled back and nothing is returned
Timeout ==
    /\ Suspended
    /\ pc' = "abandoned"
    /\ IF pc \in {"execute_step", "finalize"}
       THEN LET agent == IF pc = "execute_step" THEN executor ELSE primary_agent
            IN  \E getRaises \in BOOLEAN, st \in CancelledRunStates(agent_state[agent]) :
                   /\ plans' = get_plan_text(plans, ActivePlanId, getRaises)
                   /\ agent_state' = [agent_state EXCEPT ![agent] = st]
       ELSE UNCHANGED << plans, agent_state >>
    /\ UNCHANGED << agent_vars, plan_status, recommended_agent, agents, executor_keys, primary_agent, input_text,
                    current_step_index, step_info, executor, asked, last_run, result,
                    ret, llm_call, tool_response, store_mark >>

TimedNext == Next \/ Timeout

TimedSpec == Init /\ [][TimedNext]_vars

-----------------------------------------------------------------------------
(* get_executor called on its own, for any step_info and any oracle answer *)

\* most agents a planner of this specification holds
MaxAgents == 2

KeyUniverse == {KeyA, KeyB, KeyAb, KeyaB}

\* agents dicts: distinct keys in insertion order
AgentDicts ==
    {ag \in SeqsOf(KeyUniverse, 1, MaxAgents) :
        \A i, j \in 1..Len(ag) : i # j => ag[i] # ag[j]}

\* executor_keys: all agent keys (none given), one key, or a key that is no
\* agent followed by one that is
ExecutorKeyLists(ag) ==
    {ag} \cup {<< k >> : k \in KeyUniverse}
         \cup {<< k1, k2 >> : k1 \in KeyUniverse \ Range(ag), k2 \in Range(ag)}

SelPlanners ==
    UNION {{Planner(ag, ek, prim) : ek \in ExecutorKeyLists(ag), prim \in Range(ag)} :
              ag \in AgentDicts}

\* step_info arguments: None or {}, a text, a type, both
StepInfos == {StepInfo(t, k) : t \in {NoText, "step 0"}, k \in {NoKey} \cup KeyUniverse}

SelInit ==
    /\ \E c \in SelPlanners :
          /\ agents = c.agents
          /\ executor_keys = c.executor_keys
          /\ primary_agent = c.primary
          /\ agent_state = [k \in Range(c.agents) |-> IDLE]
    /\ step_info \in StepInfos
    /\ recommended_agent \in Recommendations
    /\ plans = << >>
    /\ input_text = << >>
    /\ current_step_index = NoIndex
    /\ executor = NoKey
    /\ asked = FALSE
    /\ last_run = "none"
    /\ result = << >>
    /\ ret = "none"
    /\ llm_call = "none"
    /\ tool_response = NoResponse
    /\ store_mark = "none"
    /\ plan_status = NoRendering
    /\ pc = "call get_executor"
    /\ AgentAbsent

\* get_executor returns; the oracle, when asked, answers recommended_agent
GetExecutorReturns ==
    /\ pc = "call get_executor"
    /\ executor' = get_executor(agents, executor_keys, primary_agent, step_info,
                                recommended_agent)
    /\ asked' = ReachesOracle(agents, step_info)
    /\ llm_call' = IF ReachesOracle(agents, step_info) THEN "answered" ELSE llm_call
    /\ pc' = "get_executor returned"
    /\ UNCHANGED << agent_vars, plan_status, recommended_agent, agents, executor_keys, primary_agent,
                    agent_state, plans, input_text, current_step_index, step_info,
                    last_run, result, ret, tool_response, store_mark >>

\* the oracle's free-text call raises and the exception leaves get_executor
GetExecutorRaises ==
    /\ pc = "call get_executor"
    /\ ReachesOracle(agents, step_info)
    /\ asked' = TRUE
    /\ llm_call' = "raised"
    /\ pc' = "get_executor raised"
    /\ UNCHANGED << agent_vars, plan_status, recommended_agent, agents, executor_keys, primary_agent,
                    agent_state, plans, input_text, current_step_index, step_info,
                    executor, last_run, result, ret, tool_response, store_mark >>

SelNext == GetExecutorReturns \/ GetExecutorRaises

SelSpec == SelInit /\ [][SelNext]_vars

-----------------------------------------------------------------------------
(* Properties *)

StepIndexes(p) == 0..(Len(p.steps) - 1)

\* the active plan, for states in which the store holds it
ActivePlan == plans[ActivePlanId]

\* C1: on the active plan, step selection returns the lowest index whose
\* status is NOT_STARTED, IN_PROGRESS or BLOCKED (an index past the end of
\* step_statuses reads NOT_STARTED), and returns None exactly when every step
\* is COMPLETED or there is no step.
C1_SelectsLowestActive ==
    [][(pc = "select" /\ ActivePlanId \in DOMAIN plans) =>
         LET p == ActivePlan
             i == current_step_index'
         IN  /\ i # NoIndex =>
                   /\ i \in StepIndexes(p)
                   /\ StatusAt(p, i) \in {NOT_STARTED, IN_PROGRESS, BLOCKED}
                   /\ \A j \in 0..(i - 1) :
                         StatusAt(p, j) \notin {NOT_STARTED, IN_PROGRESS, BLOCKED}
             /\ i = NoIndex <=> \A j \in StepIndexes(p) : StatusAt(p, j) = COMPLETED
      ]_vars

\* C1 witness: a selection skipped the COMPLETED step 0 and returned step 1
C1_Witness ==
    /\ pc = "get_executor"
    /\ current_step_index = 1
    /\ ActivePlanId \in DOMAIN plans
    /\ Len(ActivePlan.steps) > 1
    /\ StatusAt(ActivePlan, 0) = COMPLETED

\* C2: when selection returns index i, step i is IN_PROGRESS in the store
\* right afterwards and no other step's status has changed; a plan whose steps
\* are all NOT_STARTED yields 0, and with step 0 COMPLETED and the rest
\* NOT_STARTED it yields 1.
C2_SelectedStepInProgress ==
    [][(pc = "select" /\ ActivePlanId \in DOMAIN plans) =>
         LET p == ActivePlan
             q == plans'[ActivePlanId]
             i == current_step_index'
         IN  /\ i # NoIndex =>
                   /\ q.steps = p.steps
                   /\ StatusAt(q, i) = IN_PROGRESS
                   /\ i < Len(q.step_statuses)
                   /\ \A j \in StepIndexes(p) \ {i} : StatusAt(q, j) = StatusAt(p, j)
             /\ (p.steps # << >> /\ \A j \in StepIndexes(p) : StatusAt(p, j) = NOT_STARTED)
                   => i = 0
             /\ (/\ Len(p.steps) > 1
                 /\ StatusAt(p, 0) = COMPLETED
                 /\ \A j \in StepIndexes(p) \ {0} : StatusAt(p, j) = NOT_STARTED)
                   => i = 1
      ]_vars

\* C2 witness: the default plan, step 0 completed by an executor, and the
\* second selection has returned 1 and flipped it to IN_PROGRESS
C2_Witness ==
    /\ pc = "get_executor"
    /\ current_step_index = 1
    /\ ActivePlanId \in DOMAIN plans
    /\ ActivePlan.steps = LatinSteps
    /\ ActivePlan.step_statuses = << COMPLETED, IN_PROGRESS, NOT_STARTED >>

\* the latest executor run raised
RunRaised == last_run \in {"aborted", "not_idle"}

\* C3: execute eventually returns, whatever the oracle, the store and the
\* executors do: the select/execute loop does not iterate forever.
C3_ExecuteReturns == <>(pc = "done")

\* C4: when _execute_step returns, the step it ran is COMPLETED in the store,
\* however the executor's run ended.
C4_StepCompletedOnReturn ==
    pc = "check" =>
        /\ ActivePlanId \in DOMAIN plans
        /\ StatusAt(ActivePlan, current_step_index) = COMPLETED

\* C5: when the executor's run raises, the error text joins the accumulated
\* output, the run is not aborted, and the loop goes on to the steps that
\* remain: it neither ends there nor selects the same step again.
C5_RaiseProceedsToRemainingSteps ==
    [][/\ (pc = "check" /\ RunRaised) =>
             /\ \/ Len(result) = MaxOut
                \/ result[Len(result)] = Out("step_error", current_step_index)
             /\ ret' # "Execution failed"
             /\ pc' = "select"
       /\ (pc = "select" /\ RunRaised /\ current_step_index # NoIndex) =>
             current_step_index' # current_step_index
      ]_vars

\* C6: execute never lets an exception through: whatever fails, the call ends
\* by returning a string, a result or a failure string.
C6_ExecuteReturnsString ==
    /\ pc = "done" => ret \in {"result", "Failed to create plan", "Execution failed"}
    /\ pc # "done" => ret = "none"

\* C6 witness: the oracle raised during the executor selection of a step and
\* execute returned the failure string
C6_Witness ==
    /\ pc = "done"
    /\ ret = "Execution failed"
    /\ asked
    /\ current_step_index # NoIndex

-----------------------------------------------------------------------------
(* Properties of get_executor *)

Returned == pc = "get_executor returned"

\* the step_info carries a type that is a key of agents
ValidType == step_info.type # NoKey /\ step_info.type \in Range(agents)

\* key and recommendation match by substring containment, letter case ignored
ContainsIgnoringCase(key, rec) ==
    \/ In(Lower(key), Lower(rec))
    \/ In(Lower(rec), Lower(key))

\* the first position of agents whose key matches the oracle's answer, if any
IsFirstMatch(k) ==
    /\ ContainsIgnoringCase(agents[k], recommended_agent)
    /\ \A j \in 1..(k - 1) : ~ContainsIgnoringCase(agents[j], recommended_agent)

NoMatch ==
    /\ recommended_agent \notin Range(agents)
    /\ \A k \in 1..Len(agents) : ~ContainsIgnoringCase(agents[k], recommended_agent)

\* C7: a step_info whose type is a key of agents gets agents[type], whatever
\* the oracle would recommend, and the oracle is not invoked for it.
C7_ValidTypeWins ==
    /\ (Returned /\ ValidType) => (executor = step_info.type /\ ~asked)
    /\ pc = "get_executor raised" => ~ValidType

\* C7 witness: a typed step_info for which the oracle would have recommended
\* another agent
C7_Witness ==
    /\ Returned
    /\ ValidType
    /\ step_info.text # NoText
    /\ recommended_agent \in Range(agents)
    /\ recommended_agent # step_info.type

\* C8: an oracle answer that is exactly a key of agents selects that agent,
\* also when another key matches the answer by containment.
C8_ExactMatchWins ==
    (Returned /\ asked /\ recommended_agent \in Range(agents))
        => executor = recommended_agent

\* C8 witness: the answer is the second key and the first key is contained
\* in it
C8_Witness ==
    /\ Returned
    /\ asked
    /\ Len(agents) > 1
    /\ recommended_agent = agents[2]
    /\ ContainsIgnoringCase(agents[1], recommended_agent)

\* C9 as stated: an answer that is no key selects the first key, in the order
\* of agents, that matches it by containment; an answer that differs from a key
\* only by letter case selects that key.
C9_FirstMatchAndCaseOnly ==
    (Returned /\ asked /\ recommended_agent \notin Range(agents)) =>
        /\ \A k \in 1..Len(agents) : IsFirstMatch(k) => executor = agents[k]
        /\ \A k \in 1..Len(agents) :
              Lower(agents[k]) = Lower(recommended_agent) => executor = agents[k]

\* C9 amended: an answer that is no key selects the first key, in the order of
\* agents, that matches it by containment; an answer that differs from a key
\* only by letter case selects that key when no earlier key matches the answer.
C9_FirstMatch ==
    (Returned /\ asked /\ recommended_agent \notin Range(agents)) =>
        /\ \A k \in 1..Len(agents) : IsFirstMatch(k) => executor = agents[k]
        /\ \A k \in 1..Len(agents) :
              (Lower(agents[k]) = Lower(recommended_agent) /\ IsFirstMatch(k))
                  => executor = agents[k]

\* C9 witness: the answer differs only by letter case from the second key,
\* the first key does not match, and the second key is selected
C9_Witness ==
    /\ Returned
    /\ asked
    /\ Len(agents) > 1
    /\ recommended_agent \notin Range(agents)
    /\ Lower(agents[2]) = Lower(recommended_agent)
    /\ ~ContainsIgnoringCase(agents[1], recommended_agent)
    /\ executor = agents[2]

\* the positions of executor_keys that hold an agent key
PresentEntries == {k \in 1..Len(executor_keys) : executor_keys[k] \in Range(agents)}

\* C10: without step info, or with an oracle answer that matches no key,
\* get_executor returns the agent of the first entry of executor_keys that is
\* in agents, the primary agent when there is none, and never no executor.
C10_DefaultExecutor ==
    (Returned /\ (NoStepInfo(step_info) \/ (asked /\ NoMatch))) =>
        /\ executor # NoKey
        /\ executor \in Range(agents)
        /\ PresentEntries # {} =>
              \E k \in PresentEntries :
                  /\ \A j \in PresentEntries : k <= j
                  /\ executor = executor_keys[k]
        /\ PresentEntries = {} => executor = primary_agent

\* C10 witness: the oracle's answer matched no key, the first entry of
\* executor_keys is no agent and the second entry's agent was returned
C10_Witness ==
    /\ Returned
    /\ asked
    /\ NoMatch
    /\ Len(executor_keys) = 2
    /\ executor_keys[1] \notin Range(agents)
    /\ executor = executor_keys[2]

-----------------------------------------------------------------------------
(* Properties of oracle failures, plan acquisition and the end of the run *)

\* C11: when the oracle's free-text call raises during the executor selection
\* of a step, the positional default executor is chosen and the step goes on
\* to be executed; execute does not end there.
C11_OracleFailureFallsBack ==
    [][(pc = "get_executor" /\ llm_call' = "raised") =>
           /\ executor' = DefaultExecutor(agents, executor_keys, primary_agent, 1)
           /\ pc' = "execute_step"
           /\ ret' = ret
      ]_vars

\* the run starts plan acquisition and the store does not hold the active plan
AcquiresPlan ==
    /\ pc = "start"
    /\ primary_agent # NoKey
    /\ input_text # << >>
    /\ ActivePlanId \notin DOMAIN plans

\* the default plan of the task string, created under the active plan id
DefaultPlanCreated(ps, request) ==
    /\ ActivePlanId \in DOMAIN ps
    /\ ps[ActivePlanId] = NewPlan(default_steps(request))

\* C12: when the oracle's tool-selecting call raises during plan acquisition,
\* or the arguments of its planning call do not parse as JSON, the default
\* 3-step plan is created under the active plan id and execute goes on.
C12_AcquisitionFailureCreatesDefault ==
    [][(/\ AcquiresPlan
        /\ \/ llm_call' = "raised"
           \/ tool_response'.how = "unparsed planning call") =>
           /\ DefaultPlanCreated(plans', input_text)
           /\ pc' = "verify_plan"
           /\ ret' = ret
      ]_vars

\* the half of C12 about arguments that do not parse
C12_UnparsedCallCreatesDefault ==
    [][(AcquiresPlan /\ tool_response'.how = "unparsed planning call") =>
           /\ DefaultPlanCreated(plans', input_text)
           /\ pc' = "verify_plan"
           /\ ret' = ret
      ]_vars

\* every status of plan p is NOT_STARTED and its three arrays are as long as
\* one another
FreshPlan(p) ==
    /\ Len(p.step_statuses) = Len(p.steps)
    /\ Len(p.step_notes) = Len(p.steps)
    /\ \A i \in 1..Len(p.steps) : p.step_statuses[i] = NOT_STARTED

\* the oracle's answer made _create_initial_plan execute a planning/create call
OracleCreates(resp) == resp.how = "planning call" /\ resp.command = "create"

\* C13: when the oracle issues a planning/create call, the plan is created
\* under the active plan id whatever plan_id the call carries: afterwards the
\* store holds the new plan under the active id and nothing under the id the
\* oracle wrote.
C13_CreatedUnderActivePlanId ==
    [][(AcquiresPlan /\ OracleCreates(tool_response')) =>
           /\ DOMAIN plans' = DOMAIN plans \cup {ActivePlanId}
           /\ FreshPlan(plans'[ActivePlanId])
           /\ tool_response'.plan_id # ActivePlanId =>
                 tool_response'.plan_id \notin DOMAIN plans'
           /\ pc' = "verify_plan"
      ]_vars

\* C13 witness: the oracle's create call named another plan id, and the plan
\* with the oracle's steps is in the store under the active id only
C13_Witness ==
    /\ pc = "verify_plan"
    /\ OracleCreates(tool_response)
    /\ tool_response.plan_id = OtherPlanId
    /\ DOMAIN plans = {ActivePlanId}
    /\ ActivePlan.steps = StepsOfLen(MaxSteps)

\* some character of text lies above the CJK threshold code point
AnyAboveCJKThreshold(text) == \E i \in 1..Len(text) : text[i] > CJKThreshold

\* some character of text lies in the Cyrillic block
AnyInCyrillicBlock(text) ==
    \E i \in 1..Len(text) : text[i] \in CyrillicFirst..CyrillicLast

\* C14: when the oracle's answer holds no tool call, the plan created has
\* exactly 3 steps, all NOT_STARTED, phrased after the task string: the CJK
\* set if a character is above the CJK threshold, else the Cyrillic set if a
\* character is in the Cyrillic block, else "Analyze request", "Execute task",
\* "Verify results" (as for "hi").
C14_NoToolCallDefaultPlan ==
    [][(AcquiresPlan /\ tool_response'.how = "no tool call") =>
           /\ ActivePlanId \in DOMAIN plans'
           /\ LET p == plans'[ActivePlanId]
              IN  /\ Len(p.steps) = 3
                  /\ FreshPlan(p)
                  /\ AnyAboveCJKThreshold(input_text) => p.steps = CJKSteps
                  /\ (~AnyAboveCJKThreshold(input_text) /\ AnyInCyrillicBlock(input_text))
                        => p.steps = CyrillicSteps
                  /\ (~AnyAboveCJKThreshold(input_text) /\ ~AnyInCyrillicBlock(input_text))
                        => p.steps = << "Analyze request", "Execute task", "Verify results" >>
                  /\ input_text = << 104, 105 >>
                        => p.steps = << "Analyze request", "Execute task", "Verify results" >>
      ]_vars

\* C14 witness: no tool call for a task string with a Cyrillic letter and a CJK
\* ideograph, and the plan created has the CJK steps
C14_Witness ==
    /\ pc = "verify_plan"
    /\ tool_response.how = "no tool call"
    /\ AnyInCyrillicBlock(input_text)
    /\ AnyAboveCJKThreshold(input_text)
    /\ ActivePlanId \in DOMAIN plans
    /\ ActivePlan = NewPlan(CJKSteps)

\* no executor has been run and nothing has been accumulated
NothingRun ==
    /\ last_run = "none"
    /\ result = << >>
    /\ \A k \in DOMAIN agent_state : agent_state[k] = IDLE

\* C15: without a primary agent, and when the active plan id is absent from
\* the store after plan creation, execute returns a failure string at once:
\* no step is selected, no executor is run, and nothing is tried again.
C15_FatalConditionsAbort ==
    [][/\ (pc = "start" /\ primary_agent = NoKey) =>
             /\ pc' = "done"
             /\ ret' = "Execution failed"
             /\ NothingRun'
             /\ UNCHANGED << plans, current_step_index >>
       /\ (pc = "verify_plan" /\ ActivePlanId \notin DOMAIN plans) =>
             /\ pc' = "done"
             /\ ret' = "Failed to create plan"
             /\ NothingRun'
             /\ UNCHANGED << plans, current_step_index >>
       /\ pc = "done" => pc' = "done"
      ]_vars

\* C15 witness: plan creation ended without the active plan in the store and
\* execute has returned the failure string with no executor run
C15_Witness ==
    /\ pc = "done"
    /\ ret = "Failed to create plan"
    /\ llm_call = "answered"
    /\ ActivePlanId \notin DOMAIN plans
    /\ NothingRun
    /\ current_step_index = NoIndex

\* the texts _finalize_plan can hand back
OracleSummary == Out("Plan completed: oracle summary", NoIndex)
AgentSummary == Out("Plan completed: agent summary", NoIndex)
GenericNotice == Out("Plan completed. Error generating summary.", NoIndex)

\* C16: finalization never raises and always yields a text: the oracle's
\* summary when the oracle answers (the primary agent is then not run); when
\* the oracle's call raises, the summary of the primary agent's run; and the
\* generic completion notice only when that run raises too.
C16_FinalizationAlwaysYieldsText ==
    [][pc = "finalize" =>
           /\ pc' = "done"
           /\ ret' = "result"
           /\ llm_call' \in {"answered", "raised"}
           /\ Len(result) < MaxOut =>
                 /\ Len(result') = Len(result) + 1
                 /\ result'[Len(result')] \in {OracleSummary, AgentSummary, GenericNotice}
                 /\ llm_call' = "answered" <=> result'[Len(result')] = OracleSummary
                 /\ (llm_call' = "raised" /\ ~RunRaised')
                       <=> result'[Len(result')] = AgentSummary
                 /\ (llm_call' = "raised" /\ RunRaised')
                       <=> result'[Len(result')] = GenericNotice
           /\ llm_call' = "answered" => UNCHANGED << agent_state, last_run >>
           /\ llm_call' = "raised" => last_run' # "none"
      ]_vars

\* C16 witness: every step was completed, the oracle's summary call raised,
\* the primary agent's run was aborted, and execute returned the output ending
\* with the generic notice
C16_Witness ==
    /\ pc = "done"
    /\ ret = "result"
    /\ llm_call = "raised"
    /\ last_run = "aborted"
    /\ result # << >>
    /\ result[Len(result)] = GenericNotice
    /\ ActivePlanId \in DOMAIN plans
    /\ ActivePlan.steps # << >>
    /\ \A i \in StepIndexes(ActivePlan) : StatusAt(ActivePlan, i) = COMPLETED

\* C17: after an executed step, when that step's executor is in state
\* FINISHED the loop stops at once, also with active steps left: no further
\* step is selected or executed, no summary is produced, and execute returns
\* the output accumulated so far.
C17_FinishedExecutorStopsLoop ==
    [][(pc = "check" /\ agent_state[executor] = FINISHED) =>
           /\ pc' = "done"
           /\ ret' = "result"
           /\ UNCHANGED << result, plans, current_step_index, agent_state, last_run,
                           llm_call, store_mark >>
      ]_vars

\* C17 witness: the executor of step 0 finished itself by its termination
\* tool; execute returned the output of step 0 alone while a later step is
\* still NOT_STARTED
C17_Witness ==
    /\ pc = "done"
    /\ ret = "result"
    /\ last_run = "terminate"
    /\ executor \in DOMAIN agent_state
    /\ agent_state[executor] = FINISHED
    /\ current_step_index = 0
    /\ result = << Out("step_result", 0) >>
    /\ ActivePlanId \in DOMAIN plans
    /\ \E i \in StepIndexes(ActivePlan) : StatusAt(ActivePlan, i) = NOT_STARTED

\* plan p has a step whose status is active (not COMPLETED)
HasActiveStep(p) == \E i \in StepIndexes(p) : StatusAt(p, i) \in ActiveStatuses

\* C18: in every state in which the active plan has no active step,
\* current_step_index is None, also after the last step was completed and
\* after an early termination (the claim's "None whenever none exists").
C18_IndexNoneWithoutActiveStep ==
    (ActivePlanId \in DOMAIN plans /\ ~HasActiveStep(ActivePlan))
        => current_step_index = NoIndex

\* C19: a step that is COMPLETED stays COMPLETED for the rest of the run:
\* no step of the engine (selection, in-progress marking, fallback writes,
\* rendering, finalization, early termination, abandonment on timeout) changes
\* its status, and it is neither selected nor handed to an executor again.
C19_CompletedStaysCompleted ==
    [][(ActivePlanId \in DOMAIN plans) =>
           (\A i \in StepIndexes(ActivePlan) :
               StatusAt(ActivePlan, i) = COMPLETED =>
                   /\ ActivePlanId \in DOMAIN plans'
                   /\ plans'[ActivePlanId].steps = ActivePlan.steps
                   /\ StatusAt(plans'[ActivePlanId], i) = COMPLETED
                   /\ pc = "select" => current_step_index' # i
                   /\ pc' = "execute_step" => current_step_index' # i)
      ]_vars

\* C19 witness: step 0 was completed by its executor, step 1 was selected
\* with the store's mark_step failing (in-memory write), and the run was
\* then abandoned on timeout: step 0 is still COMPLETED
C19_Witness ==
    /\ pc = "abandoned"
    /\ current_step_index = 1
    /\ store_mark = "raised"
    /\ result = << Out("step_result", 0) >>
    /\ ActivePlanId \in DOMAIN plans
    /\ ActivePlan.step_statuses = << COMPLETED, IN_PROGRESS >>

\* the three arrays of plan p are as long as one another
ArraysAligned(p) ==
    /\ Len(p.step_statuses) = Len(p.steps)
    /\ Len(p.step_notes) = Len(p.steps)

\* this step of the engine issued a mark_step command: a selection that found
\* a step, or the completion marking after a run that returned
MarksStep ==
    \/ pc = "select" /\ current_step_index' # NoIndex
    \/ pc = "execute_step" /\ ~RunRaised'

\* the plan was one entry short for the step that is marked: the index is
\* equal to the length of both arrays and is the last step's (auto-growth)
OneShortAt(p, i) ==
    /\ Len(p.step_statuses) = i
    /\ Len(p.step_notes) = i
    /\ Len(p.steps) = i + 1

\* C20: len(step_statuses) = len(step_notes) = len(steps) holds after a
\* mark_step with an index equal to the current array length (auto-growth),
\* also when the command failed and the engine wrote the status in memory.
C20_ArraysAlignedAfterMark ==
    [][(/\ MarksStep
        /\ ActivePlanId \in DOMAIN plans
        /\ OneShortAt(ActivePlan, current_step_index')) =>
           ArraysAligned(plans'[ActivePlanId])
      ]_vars

\* the half of C20 about the store's command: the arrays are aligned when
\* the mark_step command did not fail
C20_ArraysAlignedAfterStoreMark ==
    [][(/\ MarksStep
        /\ store_mark' = "done"
        /\ ActivePlanId \in DOMAIN plans
        /\ OneShortAt(ActivePlan, current_step_index')) =>
           ArraysAligned(plans'[ActivePlanId])
      ]_vars

-----------------------------------------------------------------------------
(* Special tools of the executor agents *)

\* the agent's state when the i-th call of the latest act was handed to
\* _handle_special_tool
StateBefore(i) == IF i = 1 THEN state ELSE handled'[i - 1].state

\* the handler got the call and the browser tool's cleanup, if called, returned
HandlerRan(h) == h.how # "not reached" /\ ~(h.cleanup /\ h.how = "raised")

\* C21: in every executor agent a special tool that fires (the termination
\* tool always being one) makes the agent clean up the stateful tool it has
\* registered (the browser tool, if any) and then become FINISHED, also when
\* the agent has no such tool; a tool that is not special triggers neither
\* cleanup nor a change of state.
C21_SpecialToolCleansUpAndFinishes ==
    [][apc = "act" =>
          \A i \in 1..Len(handled') :
             LET h == handled'[i]
             IN  HandlerRan(h) =>
                    IF h.name \in special_tool_names(agent_class)
                    THEN /\ h.how = "finished"
                         /\ h.cleanup = ("browser_use" \in available_tools(agent_class))
                         /\ h.state = FINISHED
                    ELSE /\ h.how = "ignored"
                         /\ ~h.cleanup
                         /\ h.state = StateBefore(i)
      ]_vars

\* the part of C21 that the classes other than DataMiner meet
C21_ExceptDataMiner ==
    [][apc = "act" /\ agent_class # "DataMiner" =>
          \A i \in 1..Len(handled') :
             LET h == handled'[i]
             IN  HandlerRan(h) =>
                    IF h.name \in special_tool_names(agent_class)
                    THEN /\ h.how = "finished"
                         /\ h.cleanup = ("browser_use" \in available_tools(agent_class))
                         /\ h.state = FINISHED
                    ELSE /\ h.how = "ignored"
                         /\ ~h.cleanup
                         /\ h.state = StateBefore(i)
      ]_vars

-----------------------------------------------------------------------------
(* Side state of WebAgent *)

\* the arguments are a JSON object
WellFormed(c) == c.args.form = "object"

IsNavigation(c) ==
    c.name = "browser_use" /\ WellFormed(c) /\ c.args.action = "navigate" /\ c.args.url # ""
IsSearch(c) == c.name = "web_search" /\ WellFormed(c) /\ c.args.query # ""
IsSave(c) == c.name = "file_saver" /\ WellFormed(c) /\ c.args.file_path # ""

\* the url of the last navigation of calls, url when there is none
LastNavigated(url, calls) ==
    LET navs == SelectSeq(calls, IsNavigation)
    IN  IF navs = << >> THEN url ELSE navs[Len(navs)].args.url

Queries(calls) ==
    LET s == SelectSeq(calls, IsSearch) IN [i \in DOMAIN s |-> s[i].args.query]

Paths(calls) ==
    LET s == SelectSeq(calls, IsSave) IN [i \in DOMAIN s |-> s[i].args.file_path]

\* super().act() returned, so that WebAgent.act went through the tool calls
TrackingRan == apc = "act" /\ agent_class = "WebAgent" /\ act_result' # "aborted"

\* C22: in WebAgent.act a tool call with malformed arguments (no JSON, or no
\* JSON object) leaves current_url, search_history and saved_files as they
\* are and lets no exception escape act, and the well-formed calls of the
\* batch are tracked in order: current_url is the url of the last navigate
\* call that has one, the queries and the file paths are appended in call
\* order.
C22_MalformedArgumentsAreNoOps ==
    [][TrackingRan =>
          /\ act_result' = "returned"
          /\ current_url' = LastNavigated(current_url, tool_calls)
          /\ search_history' = search_history \o Queries(tool_calls)
          /\ saved_files' = saved_files \o Paths(tool_calls)
          /\ ((\A i \in DOMAIN tool_calls : ~WellFormed(tool_calls[i])) =>
                 UNCHANGED << current_url, search_history, saved_files >>)
      ]_vars

\* an act returned whose batch held a call with unparseable arguments before
\* a navigation, which was tracked
C22_Witness ==
    /\ agent_class = "WebAgent"
    /\ act_result = "returned"
    /\ Len(tool_calls) = 2
    /\ tool_calls[1] = AgentCall("browser_use", Malformed("invalid"))
    /\ tool_calls[2] = AgentCall("browser_use", Args("object", "navigate", "u2", "", ""))
    /\ current_url = "u2"

-----------------------------------------------------------------------------
(* Next-step instructions of WebAgent *)

\* C28: in every think cycle of WebAgent the next-step instructions are the
\* base template preceded by at most one "Current URL" line, the one of the
\* current current_url; the stored next_step_prompt does not accumulate the
\* lines of earlier cycles.
C28_PromptHoldsOneUrlLine ==
    [][apc = "think" /\ agent_class = "WebAgent" =>
          next_step_prompt' = IF current_url = NoUrl THEN NEXT_STEP_PROMPT
                              ELSE << CurrentUrlLine(current_url) >> \o NEXT_STEP_PROMPT
      ]_vars

\* the first think that finds a current_url renders it as the claim says
C28_FirstUrlLine ==
    [][(/\ apc = "think"
        /\ agent_class = "WebAgent"
        /\ next_step_prompt = NEXT_STEP_PROMPT
        /\ current_url # NoUrl) =>
          next_step_prompt' = << CurrentUrlLine(current_url) >> \o NEXT_STEP_PROMPT
      ]_vars

-----------------------------------------------------------------------------
(* Progress of the plan rendering *)

\* the engine renders the active plan: _execute_step and _finalize_plan
RendersPlan == pc \in {"execute_step", "finalize"} /\ ActivePlanId \in DOMAIN plans

\* the steps of plan p that are COMPLETED
CompletedSteps(p) == {i \in StepIndexes(p) : StatusAt(p, i) = COMPLETED}

\* the quotient q is the number n / d
IsQuotient(q, n, d) == q.den > 0 /\ q.num * d = n * q.den

\* C23: the rendering shows progress = completed / total * 100, completed
\* being the number of the plan's steps that are COMPLETED and total the
\* number of steps; progress is 0 when total is 0, never a division error;
\* 0 <= completed <= total, so that progress lies between 0 and 100.
C23_ProgressOfRendering ==
    [][RendersPlan =>
          LET r == plan_status'
          IN  /\ r.completed = Cardinality(CompletedSteps(ActivePlan))
              /\ r.total = Len(ActivePlan.steps)
              /\ 0 <= r.completed /\ r.completed <= r.total
              /\ r.progress.den > 0
              /\ IF r.total = 0 THEN r.progress.num = 0
                 ELSE IsQuotient(r.progress, r.completed * 100, r.total)
              /\ 0 <= r.progress.num /\ r.progress.num <= 100 * r.progress.den
      ]_vars

\* the plan was rendered with one of its two steps completed: progress 50
C23_Witness ==
    /\ pc = "check"
    /\ plan_status.completed = 1
    /\ plan_status.total = 2
    /\ IsQuotient(plan_status.progress, 50, 1)

\* a plan without steps was rendered when the run was finalized: progress 0
C23_WitnessNoSteps ==
    /\ pc = "done"
    /\ ret = "result"
    /\ ActivePlanId \in DOMAIN plans
    /\ ActivePlan.steps = << >>
    /\ plan_status.total = 0
    /\ plan_status.progress.num = 0

-----------------------------------------------------------------------------
(* In-memory fallback of the step marking *)

\* the status the engine is writing: IN_PROGRESS at the selection, COMPLETED
\* after the step
MarkedStatus == IF pc = "select" THEN IN_PROGRESS ELSE COMPLETED

\* q is p with status st written at index i: the array reaches the index,
\* the entries it had are as they were, the entries it gained are NOT_STARTED
WrittenAt(p, q, i, st) ==
    /\ q.steps = p.steps
    /\ Len(q.step_statuses) > i
    /\ q.step_statuses[i + 1] = st
    /\ \A j \in 0..(Len(q.step_statuses) - 1) :
          j # i => q.step_statuses[j + 1] =
                      IF j < Len(p.step_statuses) THEN p.step_statuses[j + 1]
                      ELSE NOT_STARTED

\* C24: when the store's mark_step command fails the engine writes the status
\* into its in-memory plan: after a failed in-progress marking of step i,
\* step_statuses[i] is IN_PROGRESS and the selection still returns i and the
\* step's text; after a failed completion marking,
\* step_statuses[current_step_index] is COMPLETED; the entries added to reach
\* the index are NOT_STARTED and no other existing entry changes.
C24_FallbackWritesStatus ==
    [][(MarksStep /\ store_mark' = "raised" /\ ActivePlanId \in DOMAIN plans) =>
          /\ ActivePlanId \in DOMAIN plans'
          /\ WrittenAt(ActivePlan, plans'[ActivePlanId], current_step_index', MarkedStatus)
          /\ pc = "select" =>
                /\ current_step_index' = FirstActive(ActivePlan, 0)
                /\ step_info'.text = ActivePlan.steps[current_step_index' + 1]
                /\ pc' = "get_executor"
      ]_vars

\* the completion of the second step was written in memory
C24_Witness ==
    /\ pc = "check"
    /\ store_mark = "raised"
    /\ last_run \in {"terminate", "special_tool", "budget", "no_action"}
    /\ current_step_index = 1
    /\ ActivePlanId \in DOMAIN plans
    /\ StatusAt(ActivePlan, 0) = COMPLETED
    /\ StatusAt(ActivePlan, 1) = COMPLETED

-----------------------------------------------------------------------------
(* Sequential processing of the steps *)

\* the run works on a plan that was created with every step NOT_STARTED:
\* execute was given a task string, so that the plan under the active id is
\* the one this run created or a stored one that nothing has touched yet
RunsCreatedPlan == input_text # << >> /\ ActivePlanId \in DOMAIN plans

InProgressSteps(p) == {i \in StepIndexes(p) : StatusAt(p, i) = IN_PROGRESS}

RunningAgents == {k \in DOMAIN agent_state : agent_state[k] = RUNNING}

\* C25: steps are processed one at a time and in index order: for a plan
\* created with all steps NOT_STARTED and changed by the engine only, at most
\* one step is IN_PROGRESS, at most one executor run is in flight, and an
\* executor is run for step i only when every step below i is COMPLETED.
C25_StepsInIndexOrder ==
    RunsCreatedPlan =>
       /\ Cardinality(InProgressSteps(ActivePlan)) <= 1
       /\ Cardinality(RunningAgents) <= 1
       /\ pc = "execute_step" =>
             /\ current_step_index \in StepIndexes(ActivePlan)
             /\ InProgressSteps(ActivePlan) = {current_step_index}
             /\ \A j \in 0..(current_step_index - 1) : StatusAt(ActivePlan, j) = COMPLETED

\* the executor is about to run the second step again: its earlier run for
\* that step raised, the first step is completed
C25_Witness ==
    /\ RunsCreatedPlan
    /\ pc = "execute_step"
    /\ current_step_index = 1
    /\ RunRaised
    /\ StatusAt(ActivePlan, 0) = COMPLETED

-----------------------------------------------------------------------------
(* What ends the step loop early *)

\* the loop is left by the break while the plan has an active step
StopsWithStepsLeft ==
    /\ pc = "check"
    /\ pc' = "done"
    /\ ActivePlanId \in DOMAIN plans
    /\ HasActiveStep(ActivePlan)

\* C26: the engine leaves the step loop with active steps remaining only when
\* the executor of the last step fired its termination tool; a run that ended
\* by another tool call, by the step budget or by an error does not stop the
\* plan.
C26_OnlyTerminationToolStopsPlan ==
    [][StopsWithStepsLeft => last_run = "terminate"]_vars

\* the part of C26 about the step budget: a run that used up its budget, or
\* whose think produced no action, does not stop the plan
C26_BudgetDoesNotStopPlan ==
    [][(pc = "check" /\ last_run \in {"budget", "no_action"}) => pc' = "select"]_vars

-----------------------------------------------------------------------------
(* What a "Plan completed" result stands for *)

\* execute returned a result that ends with the text of _finalize_plan
ReturnedPlanCompleted ==
    /\ pc = "done"
    /\ ret = "result"
    /\ \E i \in DOMAIN result : result[i] \in {OracleSummary, AgentSummary, GenericNotice}

AllStepsCompleted(p) == \A i \in StepIndexes(p) : StatusAt(p, i) = COMPLETED

\* C27: execute returns a finalization result (a text reporting the plan as
\* completed) only if a plan with the active plan id is in the store and each
\* of its steps is COMPLETED; a run with empty input and no plan, or with the
\* plan missing from the store, never yields a "Plan completed" result.
C27_PlanCompletedOnlyWhenCompleted ==
    ReturnedPlanCompleted =>
        ActivePlanId \in DOMAIN plans /\ AllStepsCompleted(ActivePlan)

\* the part of C27 about a plan that is in the store: with statuses of the
\* enumeration, the result is returned only when every step is COMPLETED
C27_StoredPlanAllCompleted ==
    (ReturnedPlanCompleted /\ ActivePlanId \in DOMAIN plans) =>
        AllStepsCompleted(ActivePlan)

====
